---- MODULE Spec2Model ----
(***************************************************************************)
(* Model of cogs-scripts/landsat8-process-mosaic.py: the run() pipeline of *)
(* LandsatMosaicProcessor over a small file system.  The PCI operations    *)
(* (hazerem, atcor, automos, fexport) are opaque: each call either returns *)
(* and writes its output, or raises PCIException / Exception, with or      *)
(* without leaving its output file behind.                                 *)
(***************************************************************************)
EXTENDS Integers, Sequences, FiniteSets, TLC

\* Largest number of Landsat scenes the working directory may hold.
MaxScenes == 3

VARIABLES
    pc,             \* position of run() / of the method it is executing
    state,          \* run-controller state (Unconfirmed .. Notified)
    confirmed,      \* result of confirm_execution(), FALSE until answered
    exitCode,       \* process exit status, -1 while the process runs
    dir_exists,     \* output directory -> does it exist on disk
    dir_files,      \* output directory -> regular files directly in it
    inputs,         \* files of the working directory outside the output dirs
    d_idx,          \* setup_directories: index into directories
    input_files,    \* run(): the batch returned by scan_input_files()
    i,              \* enumerate() index of the running per-scene loop
    haze_files,     \* process_atmospheric_correction: list(glob('*.pix'))
    hazeCalls,      \* log of hazerem(fili, filo) invocations
    atcorCalls,     \* log of atcor(fili, filo) invocations
    mosaicCalls,    \* number of automos invocations
    exportCalls,    \* number of fexport invocations
    scanCount,      \* number of scan_input_files() executions
    notifications,  \* number of completion notifications (beep + dialog)
    errorLogged     \* has a logger.error(...) line been written

vars == <<pc, state, confirmed, exitCode, dir_exists, dir_files, inputs,
          d_idx, input_files, i, haze_files, hazeCalls, atcorCalls,
          mosaicCalls, exportCalls, scanCount, notifications, errorLogged>>

fsVars   == <<dir_exists, dir_files, inputs>>
callVars == <<hazeCalls, atcorCalls, mosaicCalls, exportCalls, scanCount,
              notifications>>
loopVars == <<d_idx, input_files, i, haze_files>>

Range(s) == {s[k] : k \in 1..Len(s)}

\* All orderings of a finite set (os.walk and glob give no order guarantee).
Orderings(S) ==
    {s \in [1..Cardinality(S) -> S] : \A a, b \in 1..Cardinality(S) : s[a] = s[b] => a = b}

(***************************************************************************)
(* Paths.  A path is the sequence of its components below working_dir.     *)
(***************************************************************************)
working_dir == <<>>

haze_out == working_dir \o <<"hazerem">>

atcor_out == working_dir \o <<"atcor">>

mosaic_out == working_dir \o <<"mosaic">>

\* variant layout: the cutline directory beside the mosaic directory
shp_out_flat == working_dir \o <<"shp">>

shp_out == mosaic_out \o <<"shp">>

directories == <<haze_out, atcor_out, mosaic_out, shp_out>>

Dirs == Range(directories)

\* p lies strictly below q
IsUnder(p, q) == Len(p) > Len(q) /\ SubSeq(p, 1, Len(q)) = q

\* no entry at all in directory d: no file, no sub-directory
IsEmpty(d) == dir_files[d] = {} /\ \A c \in Dirs : IsUnder(c, d) => ~dir_exists[c]

\* the sub-directories that exist directly or indirectly below d
SubDirs(d) == {c \in Dirs : IsUnder(c, d) /\ dir_exists[c]}

(***************************************************************************)
(* File names: stem, number, and the rest of the name.                     *)
(***************************************************************************)
Name(stem, idx, tail) == [stem |-> stem, idx |-> idx, tail |-> tail]

File(root, name) == [root |-> root, file |-> name]

\* Metadata file of scene k; the case of the suffix varies between products.
MtlTail(k) == IF k % 2 = 0 THEN "_mtl.TXT" ELSE "_MTL.txt"

SceneFiles(k) == {Name("LC08_", k, MtlTail(k)), Name("LC08_", k, "_ANG.txt")}

\* A file of the working directory that belongs to no scene.
LooseFiles == {Name("README", 0, ".txt")}

\* What a previous run may have left in an output directory.
Stale(d) ==
    IF d = haze_out THEN Name("hazerem", 1, ".pix")
    ELSE IF d = atcor_out THEN Name("atcor", 1, ".pix")
    ELSE IF d = mosaic_out THEN Name("mosaic", 0, ".pix")
    ELSE Name("cutlines", 0, ".shp")

\* os.path.normcase on Windows lower-cases the name (fnmatch.filter uses it)
normcase(tail) ==
    CASE tail = "_MTL.txt" -> "_mtl.txt"
      [] tail = "_mtl.TXT" -> "_mtl.txt"
      [] tail = "_ANG.txt" -> "_ang.txt"
      [] OTHER -> tail

\* fnmatch.filter(files, '*MTL.txt'): the name ends in MTL.txt
fnmatch_MTL(name) == normcase(name.tail) = normcase("_MTL.txt")

\* every regular file below working_dir, as os.walk visits them
walk ==
    {File(working_dir, n) : n \in inputs}
        \cup UNION {{File(d, n) : n \in dir_files[d]} : d \in {c \in Dirs : dir_exists[c]}}

scan_input_files_result == {f \in walk : fnmatch_MTL(f.file)}

(***************************************************************************)
(* confirm_execution: input().lower().strip().startswith('y')              *)
(***************************************************************************)
Answers ==
    { <<>>, <<"y">>, <<"Y">>, <<"n">>, <<" ">>, <<"n", "y">>,
      <<" ", "Y", "e", "s", " ">>, <<"o", "k", "a", "y">>, <<"N", "o">> }

lower_char(c) ==
    CASE c = "Y" -> "y"
      [] c = "N" -> "n"
      [] OTHER -> c

lower(s) == [k \in 1..Len(s) |-> lower_char(s[k])]

RECURSIVE lstrip(_)
lstrip(s) == IF s # <<>> /\ Head(s) = " " THEN lstrip(Tail(s)) ELSE s

RECURSIVE rstrip(_)
rstrip(s) ==
    IF s # <<>> /\ s[Len(s)] = " " THEN rstrip(SubSeq(s, 1, Len(s) - 1)) ELSE s

strip(s) == rstrip(lstrip(s))

startswith_y(s) == Len(s) >= 1 /\ s[1] = "y"

confirm_execution(answer) == startswith_y(strip(lower(answer)))

(***************************************************************************)
(* External PCI operations.                                                *)
(***************************************************************************)
\* A call returns after writing its output ("ok"), or raises one of the two
\* exception kinds, having left its output file behind or not.  Interrupts
\* of the process (KeyboardInterrupt, SystemExit) are not outcomes of a call.
Outcomes ==
    {o \in [kind : {"ok", "PCIException", "Exception"}, wrote : BOOLEAN] :
        o.kind = "ok" => o.wrote}

\* variant handler: except PCIException only
CaughtOnlyPCI(kind) == kind = "PCIException"

\* except (PCIException, Exception) as e
Caught(kind) == kind \in {"PCIException", "Exception"}

Init ==
    /\ pc = "confirm_execution"
    /\ state = "Unconfirmed"
    /\ confirmed = FALSE
    /\ exitCode = -1
    /\ dir_exists \in {e \in [Dirs -> BOOLEAN] :
                         \A c, d \in Dirs : IsUnder(c, d) /\ e[c] => e[d]}
    /\ dir_files \in {f \in [Dirs -> SUBSET {Stale(d) : d \in Dirs}] :
                         \A d \in Dirs : f[d] \subseteq (IF dir_exists[d] THEN {Stale(d)} ELSE {})}
    /\ \E S \in SUBSET (1..MaxScenes) : inputs = LooseFiles \cup UNION {SceneFiles(k) : k \in S}
    /\ d_idx = 1
    /\ input_files = <<>>
    /\ i = 1
    /\ haze_files = <<>>
    /\ hazeCalls = <<>>
    /\ atcorCalls = <<>>
    /\ mosaicCalls = 0
    /\ exportCalls = 0
    /\ scanCount = 0
    /\ notifications = 0
    /\ errorLogged = FALSE

(***************************************************************************)
(* run(): confirmation                                                     *)
(***************************************************************************)
\* variant: the decline branch without its sys.exit(1)
RunDeclinedContinues ==
    /\ pc = "confirm_execution"
    /\ \E answer \in Answers : ~confirm_execution(answer)
    /\ pc' = "setup_remove"
    /\ UNCHANGED <<state, confirmed, exitCode, fsVars, loopVars, callVars>>
    /\ UNCHANGED errorLogged

\* if not self.confirm_execution(): sys.exit(1)
RunDeclined ==
    /\ pc = "confirm_execution"
    /\ \E answer \in Answers : ~confirm_execution(answer)
    /\ pc' = "exited"
    /\ exitCode' = 1
    /\ UNCHANGED <<state, confirmed, fsVars, loopVars, callVars>>
    /\ UNCHANGED errorLogged

RunConfirmed ==
    /\ pc = "confirm_execution"
    /\ \E answer \in Answers : confirm_execution(answer)
    /\ confirmed' = TRUE
    /\ pc' = "setup_remove"
    /\ UNCHANGED <<state, exitCode, fsVars, loopVars, callVars>>
    /\ UNCHANGED errorLogged

(***************************************************************************)
(* setup_directories                                                       *)
(***************************************************************************)
\* shutil.rmtree(d, ignore_errors=True): either the whole tree goes, or the
\* error is swallowed and d survives with any part of its former contents.
rmtree(d) ==
    LET tree == {d} \cup SubDirs(d)
        gone(kept) == tree \ kept
    IN  \E kept \in SUBSET tree :
          /\ kept # {} => d \in kept
          /\ \A c \in kept : \A p \in tree : IsUnder(c, p) => p \in kept
          /\ \E kf \in [kept -> SUBSET (UNION {dir_files[c] : c \in tree})] :
               /\ \A c \in kept : kf[c] \subseteq dir_files[c]
               /\ dir_exists' = [c \in Dirs |-> IF c \in gone(kept) THEN FALSE ELSE dir_exists[c]]
               /\ dir_files' = [c \in Dirs |-> IF c \in gone(kept) THEN {}
                                               ELSE IF c \in kept THEN kf[c]
                                               ELSE dir_files[c]]

\* if directory.exists(): shutil.rmtree(directory, ignore_errors=True)
SetupRemove ==
    /\ pc = "setup_remove"
    /\ LET d == directories[d_idx] IN
         IF dir_exists[d] THEN rmtree(d) ELSE UNCHANGED <<dir_exists, dir_files>>
    /\ pc' = "setup_mkdir"
    /\ UNCHANGED <<state, confirmed, exitCode, inputs, loopVars, callVars>>
    /\ UNCHANGED errorLogged

\* variant: mkdir(parents=True, exist_ok=True)
mkdir_exist_ok(d, oserror) == oserror

\* directory.mkdir(parents=True) raises FileExistsError on an existing path,
\* or any other OSError the operating system reports
mkdir_raises(d, oserror) == dir_exists[d] \/ oserror

SetupMkdir ==
    /\ pc = "setup_mkdir"
    /\ LET d == directories[d_idx] IN
       \E oserror \in BOOLEAN :
         IF mkdir_raises(d, oserror)
         THEN /\ pc' = "crashed"
              /\ exitCode' = 1
              /\ UNCHANGED <<state, dir_exists, d_idx>>
         ELSE /\ dir_exists' = [c \in Dirs |-> dir_exists[c] \/ c = d \/ IsUnder(d, c)]
              /\ IF d_idx < Len(directories)
                 THEN /\ d_idx' = d_idx + 1
                      /\ pc' = "setup_remove"
                      /\ UNCHANGED state
                 ELSE /\ d_idx' = d_idx
                      /\ pc' = "scan_input_files"
                      /\ state' = "Initialized"
              /\ UNCHANGED exitCode
    /\ UNCHANGED <<confirmed, dir_files, inputs, input_files, i, haze_files, callVars>>
    /\ UNCHANGED errorLogged

(***************************************************************************)
(* run(): discovery and the second abort point                             *)
(***************************************************************************)
\* input_files = self.scan_input_files()
ScanInputFiles ==
    /\ pc = "scan_input_files"
    /\ input_files' \in Orderings(scan_input_files_result)
    /\ scanCount' = scanCount + 1
    /\ state' = "Discovered"
    /\ pc' = "check_input_files"
    /\ UNCHANGED <<confirmed, exitCode, fsVars, d_idx, i, haze_files,
                   hazeCalls, atcorCalls, mosaicCalls, exportCalls, notifications>>
    /\ UNCHANGED errorLogged

\* variant: the emptiness test dropped
never_empty(batch) == FALSE

\* if not input_files:
no_input_files(batch) == batch = <<>>

\* logger.error("No Landsat 8 MTL files found"); sys.exit(1)
RunNoScenes ==
    /\ pc = "check_input_files"
    /\ no_input_files(input_files)
    /\ pc' = "exited"
    /\ exitCode' = 1
    /\ UNCHANGED <<state, confirmed, fsVars, loopVars, callVars>>
    /\ errorLogged' = TRUE

RunStartProcessing ==
    /\ pc = "check_input_files"
    /\ ~no_input_files(input_files)
    /\ pc' = "process_haze_removal"
    /\ i' = 1
    /\ UNCHANGED <<state, confirmed, exitCode, fsVars, d_idx, input_files,
                   haze_files, callVars>>
    /\ UNCHANGED errorLogged

(***************************************************************************)
(* process_haze_removal                                                    *)
(***************************************************************************)
\* variant: an output name that ignores the loop index
haze_output_file_fixed(k) == Name("hazerem", 1, ".pix")

\* output_file = self.haze_out / f"hazerem{i}.pix"
haze_output_file(k) == Name("hazerem", k, ".pix")

\* variant: the loop left after its first iteration
haze_loop_done_early == i > 1

\* enumerate(input_files, 1) is exhausted
haze_loop_done == i > Len(input_files)

\* variant: a failed scene is tried again instead of skipped
HazeRemovalRetries ==
    /\ pc = "process_haze_removal"
    /\ ~haze_loop_done
    /\ \E o \in Outcomes :
         /\ hazeCalls' = Append(hazeCalls,
                [fili |-> [image |-> input_files[i], layer |-> "-MS"],
                 filo |-> File(haze_out, haze_output_file(i))])
         /\ dir_files' = IF o.wrote
                         THEN [dir_files EXCEPT ![haze_out] = @ \cup {haze_output_file(i)}]
                         ELSE dir_files
         /\ i' = IF o.kind = "ok" \/ Len(hazeCalls) >= Len(input_files) THEN i + 1 ELSE i
         /\ errorLogged' = (errorLogged \/ o.kind # "ok")
         /\ UNCHANGED <<pc, exitCode>>
    /\ UNCHANGED <<state, confirmed, dir_exists, inputs, d_idx, input_files,
                   haze_files, atcorCalls, mosaicCalls, exportCalls, scanCount,
                   notifications>>

\* one iteration of the loop: try hazerem(...), except: log and go on
HazeRemovalStep ==
    /\ pc = "process_haze_removal"
    /\ ~haze_loop_done
    /\ \E o \in Outcomes :
         /\ hazeCalls' = Append(hazeCalls,
                [fili |-> [image |-> input_files[i], layer |-> "-MS"],
                 filo |-> File(haze_out, haze_output_file(i))])
         /\ dir_files' = IF o.wrote
                         THEN [dir_files EXCEPT ![haze_out] = @ \cup {haze_output_file(i)}]
                         ELSE dir_files
         /\ errorLogged' = (errorLogged \/ (o.kind # "ok" /\ Caught(o.kind)))
         /\ IF o.kind = "ok" \/ Caught(o.kind)
            THEN /\ i' = i + 1
                 /\ UNCHANGED <<pc, exitCode>>
            ELSE /\ pc' = "crashed"
                 /\ exitCode' = 1
                 /\ UNCHANGED i
    /\ UNCHANGED <<state, confirmed, dir_exists, inputs, d_idx, input_files,
                   haze_files, atcorCalls, mosaicCalls, exportCalls, scanCount,
                   notifications>>

\* the loop is over: process_haze_removal returns to run()
HazeRemovalReturn ==
    /\ pc = "process_haze_removal"
    /\ haze_loop_done
    /\ state' = "HazeDone"
    /\ pc' = "atcor_glob"
    /\ UNCHANGED <<confirmed, exitCode, fsVars, loopVars, callVars>>
    /\ UNCHANGED errorLogged

(***************************************************************************)
(* process_atmospheric_correction                                          *)
(***************************************************************************)
\* variant: the inputs derived from the batch instead of the directory
haze_glob_from_batch ==
    {File(haze_out, haze_output_file(k)) : k \in 1..Len(input_files)}

\* self.haze_out.glob('*.pix')
haze_glob == {File(haze_out, n) : n \in {m \in dir_files[haze_out] : m.tail = ".pix"}}

\* haze_files = list(self.haze_out.glob('*.pix'))
AtcorGlob ==
    /\ pc = "atcor_glob"
    /\ haze_files' \in Orderings(haze_glob)
    /\ i' = 1
    /\ pc' = "process_atmospheric_correction"
    /\ UNCHANGED <<state, confirmed, exitCode, fsVars, d_idx, input_files, callVars>>
    /\ UNCHANGED errorLogged

\* output_file = self.atcor_out / f"atcor{i}.pix"
atcor_output_file(k) == Name("atcor", k, ".pix")

AtcorStep ==
    /\ pc = "process_atmospheric_correction"
    /\ i <= Len(haze_files)
    /\ \E o \in Outcomes :
         /\ atcorCalls' = Append(atcorCalls,
                [fili |-> haze_files[i],
                 filo |-> File(atcor_out, atcor_output_file(i))])
         /\ dir_files' = IF o.wrote
                         THEN [dir_files EXCEPT ![atcor_out] = @ \cup {atcor_output_file(i)}]
                         ELSE dir_files
         /\ errorLogged' = (errorLogged \/ (o.kind # "ok" /\ Caught(o.kind)))
         /\ IF o.kind = "ok" \/ Caught(o.kind)
            THEN /\ i' = i + 1
                 /\ UNCHANGED <<pc, exitCode>>
            ELSE /\ pc' = "crashed"
                 /\ exitCode' = 1
                 /\ UNCHANGED i
    /\ UNCHANGED <<state, confirmed, dir_exists, inputs, d_idx, input_files,
                   haze_files, hazeCalls, mosaicCalls, exportCalls, scanCount,
                   notifications>>

AtcorReturn ==
    /\ pc = "process_atmospheric_correction"
    /\ i > Len(haze_files)
    /\ state' = "CorrectionDone"
    /\ pc' = "create_mosaic"
    /\ UNCHANGED <<confirmed, exitCode, fsVars, loopVars, callVars>>
    /\ UNCHANGED errorLogged

(***************************************************************************)
(* create_mosaic and export_to_tif                                         *)
(***************************************************************************)
mosaic_pix == Name("mosaic", 0, ".pix")

cutlines_shp == Name("cutlines", 0, ".shp")

mosaic_tif == Name("mosaic", 0, ".tif")

\* variant: no automos call when nothing was corrected
CreateMosaicSkipsEmpty ==
    /\ pc = "create_mosaic"
    /\ dir_files[atcor_out] = {}
    /\ pc' = "export_to_tif"
    /\ state' = "MosaicDone"
    /\ UNCHANGED <<confirmed, exitCode, fsVars, loopVars, callVars, errorLogged>>

\* automos(mfile=atcor_out, filo=mosaic_out/mosaic.pix, filvout=shp_out/cutlines.shp)
\* It can only succeed over at least one corrected raster; a failed call may
\* leave the mosaic raster behind without its cutlines.
CreateMosaic ==
    /\ pc = "create_mosaic"
    /\ \E o \in {x \in Outcomes : x.kind = "ok" => dir_files[atcor_out] # {}} :
         /\ mosaicCalls' = mosaicCalls + 1
         /\ dir_files' =
              IF ~o.wrote THEN dir_files
              ELSE IF o.kind = "ok"
                   THEN [dir_files EXCEPT ![mosaic_out] = @ \cup {mosaic_pix},
                                          ![shp_out] = @ \cup {cutlines_shp}]
                   ELSE [dir_files EXCEPT ![mosaic_out] = @ \cup {mosaic_pix}]
         /\ errorLogged' = (errorLogged \/ (o.kind # "ok" /\ Caught(o.kind)))
         /\ IF o.kind = "ok" \/ Caught(o.kind)
            THEN /\ pc' = "export_to_tif"
                 /\ state' = "MosaicDone"
                 /\ UNCHANGED exitCode
            ELSE /\ pc' = "crashed"
                 /\ exitCode' = 1
                 /\ UNCHANGED state
    /\ UNCHANGED <<confirmed, dir_exists, inputs, loopVars, hazeCalls, atcorCalls,
                   exportCalls, scanCount, notifications>>

\* fexport(fili=mosaic_out/mosaic.pix, filo=mosaic_out/mosaic.tif)
\* It can only succeed when the mosaic raster exists.
ExportToTif ==
    /\ pc = "export_to_tif"
    /\ \E o \in {x \in Outcomes : x.kind = "ok" => mosaic_pix \in dir_files[mosaic_out]} :
         /\ exportCalls' = exportCalls + 1
         /\ dir_files' = IF o.wrote
                         THEN [dir_files EXCEPT ![mosaic_out] = @ \cup {mosaic_tif}]
                         ELSE dir_files
         /\ errorLogged' = (errorLogged \/ (o.kind # "ok" /\ Caught(o.kind)))
         /\ IF o.kind = "ok" \/ Caught(o.kind)
            THEN /\ pc' = "notify"
                 /\ state' = "ExportDone"
                 /\ UNCHANGED exitCode
            ELSE /\ pc' = "crashed"
                 /\ exitCode' = 1
                 /\ UNCHANGED state
    /\ UNCHANGED <<confirmed, dir_exists, inputs, loopVars, hazeCalls, atcorCalls,
                   mosaicCalls, scanCount, notifications>>

\* winsound.MessageBeep(); MessageBoxW(...); run() returns.  The two
\* calls are unguarded in the source and are taken to return normally.
Notify ==
    /\ pc = "notify"
    /\ notifications' = notifications + 1
    /\ state' = "Notified"
    /\ pc' = "done"
    /\ exitCode' = 0
    /\ UNCHANGED <<confirmed, fsVars, loopVars, hazeCalls, atcorCalls,
                   mosaicCalls, exportCalls, scanCount>>
    /\ UNCHANGED errorLogged

Next ==
    \/ RunDeclined
    \/ RunConfirmed
    \/ SetupRemove
    \/ SetupMkdir
    \/ ScanInputFiles
    \/ RunNoScenes
    \/ RunStartProcessing
    \/ HazeRemovalStep
    \/ HazeRemovalReturn
    \/ AtcorGlob
    \/ AtcorStep
    \/ AtcorReturn
    \/ CreateMosaic
    \/ ExportToTif
    \/ Notify

Spec == Init /\ [][Next]_vars

\* run() is sequential and every call it makes is blocking and returns, so
\* the step that is enabled is eventually taken.
FairSpec == Spec /\ WF_vars(Next)

(***************************************************************************)
(* Properties                                                              *)
(***************************************************************************)
StateOrder == <<"Unconfirmed", "Initialized", "Discovered", "HazeDone",
                "CorrectionDone", "MosaicDone", "ExportDone", "Notified">>

Rank(st) == CHOOSE k \in 1..Len(StateOrder) : StateOrder[k] = st

\* the run is past both abort points: confirmed, and a non-empty batch accepted
Started ==
    /\ confirmed
    /\ scanCount > 0
    /\ input_files # <<>>
    /\ pc # "check_input_files"

NoProcessing ==
    /\ hazeCalls = <<>>
    /\ atcorCalls = <<>>
    /\ mosaicCalls = 0
    /\ exportCalls = 0

HazePresent == {File(haze_out, n) : n \in dir_files[haze_out]}

\* C1: with a batch of N scenes, hazerem is invoked exactly N times, call k on
\* scene k of the batch; a failing call is not retried, does not stop the
\* later calls and does not leave the stage as an error.
C1_HazeOncePerScene ==
    /\ Len(hazeCalls) <= Len(input_files)
    /\ \A k \in 1..Len(hazeCalls) :
         /\ hazeCalls[k].fili = [image |-> input_files[k], layer |-> "-MS"]
         /\ hazeCalls[k].filo = File(haze_out, Name("hazerem", k, ".pix"))
    /\ pc = "process_haze_removal" => Len(hazeCalls) = i - 1
    /\ Rank(state) >= Rank("HazeDone") => Len(hazeCalls) = Len(input_files)
    /\ (Started /\ state = "Discovered") => pc = "process_haze_removal"

\* a first call that failed without output, followed by calls on the others
C1_Witness ==
    /\ state = "HazeDone"
    /\ Len(input_files) >= 2
    /\ Len(hazeCalls) = Len(input_files)
    /\ errorLogged
    /\ Name("hazerem", 1, ".pix") \notin dir_files[haze_out]
    /\ Name("hazerem", 2, ".pix") \in dir_files[haze_out]

\* C2 (as stated): after setup_directories returns, the four directories
\* exist, each is empty, and no one of them lies inside another.
C2_Original ==
    pc = "scan_input_files" =>
        /\ \A d \in Dirs : dir_exists[d] /\ IsEmpty(d)
        /\ Cardinality(Dirs) = 4
        /\ \A c, d \in Dirs : ~IsUnder(c, d)

\* C2 (amended): after setup_directories returns, the four directories exist
\* and none holds a file; haze, atcor and cutline directories are empty; the
\* mosaic directory holds exactly the cutline directory, which lies inside it;
\* the haze, atcor and mosaic directories are pairwise disjoint.
C2_SetupPostcondition ==
    pc = "scan_input_files" =>
        /\ Cardinality(Dirs) = 4
        /\ \A d \in Dirs : dir_exists[d] /\ dir_files[d] = {}
        /\ \A d \in Dirs \ {mosaic_out} : IsEmpty(d)
        /\ SubDirs(mosaic_out) = {shp_out}
        /\ \A c, d \in Dirs : IsUnder(c, d) <=> (c = shp_out /\ d = mosaic_out)

C2_Witness ==
    /\ pc = "scan_input_files"
    /\ state = "Initialized"
    /\ scanCount = 0
    /\ dir_exists[mosaic_out] /\ dir_exists[shp_out]
    /\ ~IsEmpty(mosaic_out)

\* C3: a declined run exits with status 1 having changed nothing on disk and
\* having scanned, processed and notified nothing; nothing on disk changes in
\* any run until the confirmation has been accepted.
C3_DeclineLeavesTreeUntouched ==
    /\ [](~confirmed => pc \in {"confirm_execution", "exited"})
    /\ []((pc = "exited" /\ ~confirmed) =>
            /\ exitCode = 1
            /\ state = "Unconfirmed"
            /\ scanCount = 0
            /\ NoProcessing
            /\ notifications = 0)
    /\ [][~confirmed' => fsVars' = fsVars]_vars
    /\ [][fsVars' # fsVars => confirmed]_vars

\* a declined run over a tree that holds output of a previous run
C3_Witness ==
    /\ pc = "exited"
    /\ ~confirmed
    /\ exitCode = 1
    /\ \E d \in Dirs : dir_files[d] # {}

\* C4: an empty discovery ends the run with status 1 in state Discovered,
\* with no PCI operation invoked and no notification.
C4_NoScenesAborts ==
    /\ (pc = "exited" /\ confirmed) =>
          /\ input_files = <<>>
          /\ scanCount = 1
          /\ exitCode = 1
          /\ state = "Discovered"
          /\ NoProcessing
          /\ notifications = 0
    /\ (scanCount > 0 /\ input_files = <<>> /\ pc # "check_input_files") => pc = "exited"

C4_Witness ==
    /\ pc = "exited"
    /\ confirmed
    /\ scanCount = 1
    /\ input_files = <<>>
    /\ inputs # {}
    /\ exitCode = 1

\* C5: a run past both abort points invokes automos exactly once and fexport
\* exactly once, whatever the per-scene calls and automos itself did.
C5_MosaicAndExportOnce ==
    /\ mosaicCalls <= 1
    /\ exportCalls <= 1
    /\ Started =>
         /\ pc \notin {"crashed", "exited"}
         /\ mosaicCalls = (IF Rank(state) >= Rank("MosaicDone") THEN 1 ELSE 0)
         /\ exportCalls = (IF Rank(state) >= Rank("ExportDone") THEN 1 ELSE 0)

\* every per-scene call and automos failed, and both were still invoked once
C5_Witness ==
    /\ pc = "done"
    /\ dir_files[haze_out] = {}
    /\ dir_files[atcor_out] = {}
    /\ mosaic_pix \notin dir_files[mosaic_out]
    /\ mosaic_tif \notin dir_files[mosaic_out]
    /\ errorLogged
    /\ mosaicCalls = 1
    /\ exportCalls = 1

\* C6: atcor is invoked once for each file present in the haze directory when
\* the stage starts and for nothing else, so the number of attempts is the
\* number of haze outputs and not the number of scenes; a failing call does
\* not stop the later ones.
C6_AtcorOverHazeOutputs ==
    /\ Rank(state) < Rank("HazeDone") => atcorCalls = <<>>
    /\ pc = "process_atmospheric_correction" =>
         /\ Range(haze_files) = HazePresent
         /\ Len(haze_files) = Cardinality(dir_files[haze_out])
         /\ Len(atcorCalls) = i - 1
    /\ \A k \in 1..Len(atcorCalls) : atcorCalls[k].fili = haze_files[k]
    /\ Rank(state) >= Rank("CorrectionDone") =>
         /\ Len(atcorCalls) = Cardinality(dir_files[haze_out])
         /\ {atcorCalls[k].fili : k \in 1..Len(atcorCalls)} = HazePresent
    /\ (Started /\ state = "HazeDone") =>
         pc \in {"atcor_glob", "process_atmospheric_correction"}

\* one haze call left no output, one correction failed, the next was attempted
C6_Witness ==
    /\ state = "CorrectionDone"
    /\ Len(input_files) >= 3
    /\ Cardinality(dir_files[haze_out]) = Len(input_files) - 1
    /\ Len(atcorCalls) = Len(input_files) - 1
    /\ Name("atcor", 1, ".pix") \notin dir_files[atcor_out]
    /\ Name("atcor", 2, ".pix") \in dir_files[atcor_out]

\* C7: a run past both abort points reaches Notified and notifies exactly
\* once whatever calls fail; a failing PCI call never ends the run; a run
\* that stopped at an abort point never notifies.
C7_AlwaysNotified ==
    /\ Started ~> (state = "Notified" /\ notifications = 1)
    /\ [](Started => pc \notin {"crashed", "exited"})
    /\ [](notifications = (IF state = "Notified" THEN 1 ELSE 0))
    /\ [](pc \in {"exited", "crashed"} => notifications = 0)

\* notified although the export failed
C7_Witness ==
    /\ state = "Notified"
    /\ notifications = 1
    /\ mosaic_pix \in dir_files[mosaic_out]
    /\ mosaic_tif \notin dir_files[mosaic_out]
    /\ errorLogged

\* C8: a mkdir that fails, in particular on a directory that rmtree could not
\* remove, ends the run: no scan, no PCI operation and no notification
\* follow, and setup never returns over a directory that still holds files.
C8_SetupFailureIsFatal ==
    /\ [][pc = "setup_mkdir" =>
            ((dir_exists[directories[d_idx]] \/ ~dir_exists'[directories[d_idx]])
                => pc' = "crashed")]_vars
    /\ [][pc = "crashed" => pc' = "crashed"]_vars
    /\ [](pc = "crashed" =>
            /\ exitCode = 1
            /\ state = "Unconfirmed"
            /\ scanCount = 0
            /\ NoProcessing
            /\ notifications = 0)
    /\ [](Rank(state) >= Rank("Initialized") /\ scanCount = 0 =>
            \A d \in Dirs : dir_files[d] = {})

\* the run died on a directory whose old contents could not be removed
C8_Witness ==
    /\ pc = "crashed"
    /\ exitCode = 1
    /\ dir_exists[directories[d_idx]]
    /\ dir_files[directories[d_idx]] # {}

\* C9: when no call failed, the finished run leaves N haze rasters and N
\* corrected rasters (N the number of metadata files), one mosaic raster,
\* one cutline file, one exported raster, and has notified once.
C9_EndToEnd ==
    (pc = "done" /\ ~errorLogged) =>
        /\ Len(input_files) = Cardinality({n \in inputs : fnmatch_MTL(n)})
        /\ Cardinality(dir_files[haze_out]) = Len(input_files)
        /\ \A n \in dir_files[haze_out] : n.tail = ".pix"
        /\ Cardinality(dir_files[atcor_out]) = Len(input_files)
        /\ \A n \in dir_files[atcor_out] : n.tail = ".pix"
        /\ dir_files[mosaic_out] = {mosaic_pix, mosaic_tif}
        /\ dir_files[shp_out] = {cutlines_shp}
        /\ notifications = 1

C9_Witness ==
    /\ pc = "done"
    /\ ~errorLogged
    /\ Len(input_files) = 3
    /\ Cardinality(dir_files[haze_out]) = 3
    /\ Cardinality(dir_files[atcor_out]) = 3

\* C10: the controller state only advances one step at a time along
\* StateOrder; the scan runs once, after setup, and the batch never changes
\* again; each PCI operation is invoked only in its own stage, one at a
\* time, after every call of the stage before it.
C10_LinearOrder ==
    /\ [][Rank(state') \in {Rank(state), Rank(state) + 1}]_vars
    /\ [][scanCount > 0 => (input_files' = input_files /\ scanCount' = scanCount)]_vars
    /\ [][/\ scanCount' # scanCount => (state = "Initialized" /\ \A d \in Dirs : dir_exists[d])
          /\ hazeCalls' # hazeCalls => (state = "Discovered" /\ Len(hazeCalls') = Len(hazeCalls) + 1)
          /\ atcorCalls' # atcorCalls => (state = "HazeDone" /\ Len(atcorCalls') = Len(atcorCalls) + 1)
          /\ mosaicCalls' # mosaicCalls => state = "CorrectionDone"
          /\ exportCalls' # exportCalls => state = "MosaicDone"
          /\ notifications' # notifications => state = "ExportDone"
          /\ Cardinality({k \in 1..6 : <<scanCount, hazeCalls, atcorCalls, mosaicCalls,
                                          exportCalls, notifications>>[k]
                                        # <<scanCount', hazeCalls', atcorCalls', mosaicCalls',
                                            exportCalls', notifications'>>[k]}) <= 1]_vars
    /\ [](/\ scanCount <= 1
          /\ scanCount = (IF Rank(state) >= Rank("Discovered") THEN 1 ELSE 0)
          /\ (atcorCalls # <<>> \/ Rank(state) >= Rank("HazeDone"))
                => Len(hazeCalls) = Len(input_files)
          /\ (mosaicCalls > 0 \/ Rank(state) >= Rank("CorrectionDone"))
                => Len(atcorCalls) = Len(haze_files)
          /\ (exportCalls > 0 \/ Rank(state) >= Rank("MosaicDone")) => mosaicCalls = 1
          /\ (notifications > 0 \/ Rank(state) >= Rank("ExportDone")) => exportCalls = 1)

C10_Witness ==
    /\ state = "Notified"
    /\ Len(hazeCalls) >= 2
    /\ Len(atcorCalls) >= 2
    /\ mosaicCalls = 1
    /\ exportCalls = 1
    /\ scanCount = 1
====
